---- MODULE Spec2Model ----
(***************************************************************************)
(* Model of get_edges, the unit-disk edge builder of                       *)
(* Week2_Rydberg_Atoms/OceanSDK_implmentation.ipynb.                       *)
(*                                                                         *)
(* Coordinates are taken from a dyadic grid: a coordinate value c of the   *)
(* model stands for the float c / Res, Res a power of two.  On that grid   *)
(* the subtractions, squares and sums of get_edges are exact in binary     *)
(* floating point, and the square root is the correctly rounded one, so    *)
(* the comparison dij <= 1.0 is decided as over the reals.  The notebook's  *)
(* six-point instance is rounded to that grid: each of its pairwise        *)
(* distances differs from 1.0 by more than 0.08 and rounding to 1/64 moves *)
(* a distance by less than 0.023, so every comparison dij <= 1.0 comes out *)
(* as it does for the floats.                                              *)
(***************************************************************************)
EXTENDS Integers, Sequences, FiniteSets

\* ---------------------------------------------------------------- bounds
ResBits == 6
MaxCoord == 2
MaxN == 3

\* Grid resolution: the float 1.0 is Res grid steps, 0.5 is Half.
Res == 2 ^ ResBits
Half == Res \div 2

\* ---------------------------------------------------------------- inputs
Point(x, y) == <<x, y>>

\* the points with coordinates 0, 0.5, ..., MaxCoord * 0.5
GridPoints == {Point(Half * x, Half * y) : x \in 0..MaxCoord, y \in 0..MaxCoord}

RECURSIVE SeqsUpTo(_, _)
SeqsUpTo(S, n) ==
    IF n = 0 THEN {<<>>}
    ELSE LET shorter == SeqsUpTo(S, n - 1)
         IN  shorter \cup {Append(s, p) : s \in {t \in shorter : Len(t) = n - 1}, p \in S}

\* the point sets of the worked examples: [(0,0), (1,0), (2,0)],
\* [(0,0), (0,0.5), (10,10)], and a regular polygon inscribed in a circle of
\* diameter below 1.0 (the square of side 0.5, diameter sqrt(0.5))
ExampleLine == << Point(0, 0), Point(Res, 0), Point(2 * Res, 0) >>
ExampleFar  == << Point(0, 0), Point(0, Res \div 2), Point(10 * Res, 10 * Res) >>

Square == << Point(0, 0), Point(Res \div 2, 0),
             Point(Res \div 2, Res \div 2), Point(0, Res \div 2) >>

\* the six points of the notebook's instance, rounded to the nearest 1/64
SixPoints ==
    LET u == 2 ^ (ResBits - 6)
    IN  << Point(22 * u, 96 * u), Point(40 * u, 165 * u), Point(89 * u, 139 * u),
           Point(43 * u, 43 * u), Point(55 * u, 217 * u), Point(75 * u, 69 * u) >>

PointSets ==
    SeqsUpTo(GridPoints, MaxN) \cup {ExampleLine, ExampleFar, Square, SixPoints}

\* a coordinate that is not a number (a str); the numeric coordinates of the
\* model are never negative
NonNumeric == 0 - 1

\* malformed points: one coordinate, three coordinates, a non-numeric x, a
\* non-numeric y
BadPoints == { <<0>>, <<0, 0, 0>>, <<NonNumeric, 0>>, <<0, NonNumeric>> }

\* the point sets of (0,0) and malformed points that hold a malformed point
MalformedSets ==
    {g \in SeqsUpTo({Point(0, 0)} \cup BadPoints, MaxN) :
        \E k \in 1..Len(g) : g[k] \in BadPoints}

\* the positional arguments the caller passes after the point set: none, or
\* a threshold (1.0 or 2.0)
ExtraArgs == {<<>>, <<Res>>, <<2 * Res>>}

\* the point sets a caller runs between two runs on the same point set
Others == {ExampleLine}

VARIABLES
    graph,      \* the caller's list of points (graph[k+1] is Python's graph[k])
    extraArgs,  \* the positional arguments of the call after graph
    pc,         \* position in get_edges, then in the graph construction cell
    err,        \* the exception that left get_edges, "" if none
    Nv,         \* local Nv
    edges,      \* local Nv x Nv matrix, indexed by <<row, column>> from 0
    i, j,       \* loop variables
    xi, yi,     \* coordinates unpacked by the outer loop
    result,     \* the returned value once pc = "done" (the caller's edges)
    G,          \* the caller's nx.Graph: its nodes and its edges
    pos,        \* position of the caller's loop in the EdgeList (from 1)
    evald,      \* history: the index pairs whose dij this run has computed
    first,      \* history: the first completed run, its point set and result
    sawOther    \* history: a run on another point set followed the first run

vars == <<graph, extraArgs, pc, err, Nv, edges, i, j, xi, yi, result,
          G, pos, evald, first, sawOther>>

\* ---------------------------------------------------------------- helpers
\* def get_edges(graph): exactly one positional parameter
ArityOKAny(args) == TRUE
ArityOK(args) == Len(args) = 0

\* np.zeros((n, n))
Ones(n) == [p \in (0..(n - 1)) \X (0..(n - 1)) |-> 1]
Zeros(n) == [p \in (0..(n - 1)) \X (0..(n - 1)) |-> 0]

\* edges = np.zeros((Nv, Nv)): a new matrix at every call, whatever matrix
\* (old) an earlier call left behind
AllocReuse(old, n) == IF DOMAIN old = DOMAIN Zeros(n) THEN old ELSE Zeros(n)
Alloc(old, n) == Zeros(n)

\* xi, yi = graph[i] binds iff graph[i] has exactly two items
Unpacks(p) == Len(p) = 2

\* the operands of - and ** are numbers
IsNumAny(c) == TRUE
IsNum(c) == c # NonNumeric

\* graph[k]
At(g, k) == g[k + 1]

\* range(i + 1, Nv) starts at i + 1
InnerStartSelf(k) == k
InnerStart(k) == k + 1

\* (xi - xj) ** 2. + (yi - yj) ** 2.
SqSumPlus(x1, y1, x2, y2) == (x1 + x2) * (x1 + x2) + (y1 + y2) * (y1 + y2)
SqSum(x1, y1, x2, y2) == (x1 - x2) * (x1 - x2) + (y1 - y2) * (y1 - y2)

\* np.sqrt of a value s (in squared grid steps): the integer part of the
\* root and whether the root is that integer exactly
RECURSIVE RootAbove(_, _)
RootAbove(s, h) == IF h * h > s THEN h ELSE RootAbove(s, 2 * h)

RECURSIVE RootIn(_, _, _)
RootIn(s, lo, hi) ==
    IF lo = hi THEN lo
    ELSE LET mid == (lo + hi + 1) \div 2
         IN  IF mid * mid <= s THEN RootIn(s, mid, hi) ELSE RootIn(s, lo, mid - 1)

FloorSqrt(s) == RootIn(s, 0, RootAbove(s, 1))

Sqrt(s) == LET r == FloorSqrt(s) IN [fl |-> r, exact |-> r * r = s]

\* dij <= 1.0
LtOne(d) == d.fl < Res
LeqOne(d) == d.fl < Res \/ (d.fl = Res /\ d.exact)

\* edges[i, j] = 1
SetEdgeSym(m, r, c) == [m EXCEPT ![<<r, c>>] = 1, ![<<c, r>>] = 1]
SetEdge(m, r, c) == [m EXCEPT ![<<r, c>>] = 1]

\* np.argwhere(edges == 1): the indices of the matching entries, in
\* row-major (C) order
ColMajor(n) == [k \in 1..(n * n) |-> <<(k - 1) % n, (k - 1) \div n>>]
RowMajor(n) == [k \in 1..(n * n) |-> <<(k - 1) \div n, (k - 1) % n>>]

ArgwhereT(m, n) == LET Is1(p) == m[p] = 1 IN SelectSeq(ColMajor(n), Is1)
Argwhere(m, n) == LET Is1(p) == m[p] = 1 IN SelectSeq(RowMajor(n), Is1)

\* G = nx.Graph()
EmptyGraph == [nodes |-> {}, edges |-> {}]

\* G.add_edge(u, v): both endpoints become nodes, {u, v} becomes an edge
AddEdgeFirstOnly(g, u, v) == [nodes |-> g.nodes \cup {u}, edges |-> g.edges \cup {{u, v}}]
AddEdge(g, u, v) == [nodes |-> g.nodes \cup {u, v}, edges |-> g.edges \cup {{u, v}}]

\* one iteration of for edge in edges: G.add_edge(edge[0], edge[1]), as its
\* effect on G and on the array edges it iterates over
LoopStepConsuming(g, es, n) ==
    [G |-> AddEdge(g, es[n][1], es[n][2]), edges |-> [es EXCEPT ![n] = <<0, 0>>]]
LoopStep(g, es, n) ==
    [G |-> AddEdge(g, es[n][1], es[n][2]), edges |-> es]

\* ---------------------------------------------------------------- behaviour
Init ==
    /\ graph \in PointSets \cup MalformedSets
    /\ extraArgs \in ExtraArgs
    /\ pc = "call"
    /\ err = ""
    /\ Nv = 0
    /\ edges = Zeros(0)
    /\ i = 0
    /\ j = 0
    /\ xi = 0
    /\ yi = 0
    /\ result = <<>>
    /\ G = EmptyGraph
    /\ pos = 0
    /\ evald = <<>>
    /\ first = [has |-> FALSE, graph |-> <<>>, result |-> <<>>]
    /\ sawOther = FALSE

caller == <<G, pos>>
history == <<first, sawOther>>

\* get_edges(graph, T): the call does not bind
CallBadArity ==
    /\ pc = "call"
    /\ ~ArityOK(extraArgs)
    /\ pc' = "fault"
    /\ err' = "TypeError"
    /\ UNCHANGED <<graph, extraArgs, Nv, edges, i, j, xi, yi, result>>
    /\ UNCHANGED <<caller, evald, history>>

\* Nv = len(graph); edges = np.zeros((Nv, Nv)); enter for i in range(Nv - 1)
Call ==
    /\ pc = "call"
    /\ ArityOK(extraArgs)
    /\ Nv' = Len(graph)
    /\ edges' = Alloc(edges, Len(graph))
    /\ i' = 0
    /\ pc' = "outer"
    /\ UNCHANGED <<graph, extraArgs, err, j, xi, yi, result>>
    /\ UNCHANGED <<caller, evald, history>>

\* one iteration head of for i in range(Nv - 1): xi, yi = graph[i]
OuterNext ==
    /\ pc = "outer"
    /\ i < Nv - 1
    /\ Unpacks(At(graph, i))
    /\ xi' = At(graph, i)[1]
    /\ yi' = At(graph, i)[2]
    /\ j' = InnerStart(i)
    /\ pc' = "inner"
    /\ UNCHANGED <<graph, extraArgs, err, Nv, edges, i, result>>
    /\ UNCHANGED <<caller, evald, history>>

\* xi, yi = graph[i] raises ValueError: graph[i] has not two items
OuterUnpackFault ==
    /\ pc = "outer"
    /\ i < Nv - 1
    /\ ~Unpacks(At(graph, i))
    /\ pc' = "fault"
    /\ err' = "ValueError"
    /\ UNCHANGED <<graph, extraArgs, Nv, edges, i, j, xi, yi, result>>
    /\ UNCHANGED <<caller, evald, history>>

\* range(Nv - 1) is exhausted
OuterExit ==
    /\ pc = "outer"
    /\ ~(i < Nv - 1)
    /\ pc' = "return"
    /\ UNCHANGED <<graph, extraArgs, err, Nv, edges, i, j, xi, yi, result>>
    /\ UNCHANGED <<caller, evald, history>>

\* the operands of dij = np.sqrt((xi - xj) ** 2. + (yi - yj) ** 2.) for graph[j]
Operands(p) == <<xi, p[1], yi, p[2]>>
AllNum(ops) == \A n \in 1..Len(ops) : IsNum(ops[n])

\* one iteration of for j in range(i + 1, Nv)
InnerNext ==
    /\ pc = "inner"
    /\ j < Nv
    /\ Unpacks(At(graph, j))
    /\ AllNum(Operands(At(graph, j)))
    /\ LET xj  == At(graph, j)[1]
           yj  == At(graph, j)[2]
           dij == Sqrt(SqSum(xi, yi, xj, yj))
       IN  edges' = IF LeqOne(dij) THEN SetEdge(edges, i, j) ELSE edges
    /\ evald' = Append(evald, <<i, j>>)
    /\ j' = j + 1
    /\ UNCHANGED <<graph, extraArgs, pc, err, Nv, i, xi, yi, result>>
    /\ UNCHANGED <<caller, history>>

\* xj, yj = graph[j] raises ValueError: graph[j] has not two items
InnerUnpackFault ==
    /\ pc = "inner"
    /\ j < Nv
    /\ ~Unpacks(At(graph, j))
    /\ pc' = "fault"
    /\ err' = "ValueError"
    /\ UNCHANGED <<graph, extraArgs, Nv, edges, i, j, xi, yi, result>>
    /\ UNCHANGED <<caller, evald, history>>

\* the arithmetic of dij raises: an operand is not a number
InnerOperandFault ==
    /\ pc = "inner"
    /\ j < Nv
    /\ Unpacks(At(graph, j))
    /\ ~AllNum(Operands(At(graph, j)))
    /\ pc' = "fault"
    /\ err' = "OperandTypeError"
    /\ UNCHANGED <<graph, extraArgs, Nv, edges, i, j, xi, yi, result>>
    /\ UNCHANGED <<caller, evald, history>>

\* range(i + 1, Nv) is exhausted: next i
InnerExit ==
    /\ pc = "inner"
    /\ ~(j < Nv)
    /\ i' = i + 1
    /\ pc' = "outer"
    /\ UNCHANGED <<graph, extraArgs, err, Nv, edges, j, xi, yi, result>>
    /\ UNCHANGED <<caller, evald, history>>

\* return np.argwhere(edges == 1)
Return ==
    /\ pc = "return"
    /\ result' = Argwhere(edges, Nv)
    /\ pc' = "done"
    /\ first' = IF first.has THEN first
                ELSE [has |-> TRUE, graph |-> graph, result |-> result']
    /\ UNCHANGED <<graph, extraArgs, err, Nv, edges, i, j, xi, yi>>
    /\ UNCHANGED <<caller, evald, sawOther>>

\* G = nx.Graph(); enter for edge in edges
BuildStart ==
    /\ pc = "done"
    /\ G' = EmptyGraph
    /\ pos' = 1
    /\ pc' = "build"
    /\ UNCHANGED <<graph, extraArgs, err, Nv, edges, i, j, xi, yi, result>>
    /\ UNCHANGED <<evald, history>>

\* one iteration of for edge in edges: G.add_edge(edge[0], edge[1])
BuildAdd ==
    /\ pc = "build"
    /\ pos <= Len(result)
    /\ LET step == LoopStep(G, result, pos)
       IN  /\ G' = step.G
           /\ result' = step.edges
    /\ pos' = pos + 1
    /\ UNCHANGED <<graph, extraArgs, pc, err, Nv, edges, i, j, xi, yi>>
    /\ UNCHANGED <<evald, history>>

\* the caller's loop is exhausted: G is built
BuildExit ==
    /\ pc = "build"
    /\ ~(pos <= Len(result))
    /\ pc' = "built"
    /\ UNCHANGED <<graph, extraArgs, err, Nv, edges, i, j, xi, yi, result>>
    /\ UNCHANGED <<caller, evald, history>>

\* the caller calls get_edges again, on the point set of the first run or on
\* another one; the names of the finished call still hold their last values
ReCall ==
    /\ pc = "done"
    /\ graph' \in {first.graph} \cup Others
    /\ sawOther' = (sawOther \/ graph' # first.graph)
    /\ pc' = "call"
    /\ result' = <<>>
    /\ evald' = <<>>
    /\ UNCHANGED <<extraArgs, err, Nv, edges, i, j, xi, yi>>
    /\ UNCHANGED <<caller, first>>

GetEdges ==
    \/ CallBadArity
    \/ Call
    \/ OuterNext
    \/ OuterUnpackFault
    \/ OuterExit
    \/ InnerNext
    \/ InnerUnpackFault
    \/ InnerOperandFault
    \/ InnerExit
    \/ Return

Next ==
    \/ GetEdges
    \/ BuildStart
    \/ BuildAdd
    \/ BuildExit

Spec == Init /\ [][Next]_vars

\* calls of get_edges one after the other
NextRerun ==
    \/ GetEdges
    \/ ReCall

SpecRerun == Init /\ [][NextRerun]_vars

\* ---------------------------------------------------------------- properties
Returned == pc = "done"
N == Len(graph)
EdgeList == {result[k] : k \in 1..Len(result)}
UpperPairs == {p \in (0..(N - 1)) \X (0..(N - 1)) : p[1] < p[2]}

\* Euclidean distance of points a and b is at most t grid steps
WithinDist(a, b, t) ==
    (a[1] - b[1]) * (a[1] - b[1]) + (a[2] - b[2]) * (a[2] - b[2]) <= t * t

\* Euclidean distance of points a and b is exactly t grid steps
AtDist(a, b, t) ==
    (a[1] - b[1]) * (a[1] - b[1]) + (a[2] - b[2]) * (a[2] - b[2]) = t * t

\* C1: with the threshold 1.0, the returned EdgeList holds the pair (i, j),
\* i < j, iff points i and j are at Euclidean distance <= 1.0, and it holds
\* nothing but such pairs.
C1_EdgesIffWithinUnit ==
    Returned =>
        /\ \A p \in UpperPairs :
              (p \in EdgeList) <=> WithinDist(At(graph, p[1]), At(graph, p[2]), Res)
        /\ EdgeList \subseteq UpperPairs

C1_Witness ==
    /\ Returned
    /\ \E p \in UpperPairs : p \in EdgeList
    /\ \E p \in UpperPairs : p \notin EdgeList

\* C2: for a point set of size 0 or 1 the call returns, and returns the
\* empty EdgeList: it never faults, and once the loops are over the result
\* is empty.
C2_SmallSetsEmpty ==
    (N <= 1 /\ Len(extraArgs) = 0) =>
        /\ pc # "fault"
        /\ pc \in {"return", "done"} => Argwhere(edges, Nv) = <<>>
        /\ Returned => result = <<>>

C2_Witness == Returned /\ N = 1 /\ result = <<>>

\* C3: two points at distance exactly 1.0 are adjacent: their pair is in the
\* returned EdgeList.
C3_ThresholdInclusive ==
    Returned =>
        \A p \in UpperPairs :
            AtDist(At(graph, p[1]), At(graph, p[2]), Res) => p \in EdgeList

C3_Witness ==
    /\ Returned
    /\ \E p \in UpperPairs :
          /\ At(graph, p[1]) = Point(0, 0)
          /\ At(graph, p[2]) = Point(Res, 0)
          /\ p \in EdgeList

\* C4: the returned EdgeList has no edge (i, i), also when distinct indices
\* hold identical coordinates.
C4_NoSelfLoops ==
    Returned => \A k \in 1..Len(result) : result[k][1] # result[k][2]

C4_Witness ==
    /\ Returned
    /\ \E p \in UpperPairs : At(graph, p[1]) = At(graph, p[2]) /\ p \in EdgeList

\* C5: each unordered pair of vertices appears at most once in the returned
\* EdgeList: no entry is repeated and no entry is the reverse of another.
C5_NoDuplicateEdges ==
    Returned =>
        \A k, l \in 1..Len(result) :
            k # l =>
                /\ result[k] # result[l]
                /\ result[k] # <<result[l][2], result[l][1]>>

C5_Witness == Returned /\ Len(result) >= 2

\* lexicographic order on index pairs
LexLess(p, q) == p[1] < q[1] \/ (p[1] = q[1] /\ p[2] < q[2])

\* C6: the returned EdgeList is a sequence of pairs (i, j), 0 <= i < j <= N-1,
\* in the order of the row-major upper-triangular scan: i ascending and, for
\* equal i, j ascending.
C6_RowMajorOrder ==
    Returned =>
        /\ \A k \in 1..Len(result) :
              /\ Len(result[k]) = 2
              /\ 0 <= result[k][1]
              /\ result[k][1] < result[k][2]
              /\ result[k][2] <= N - 1
        /\ \A k \in 1..(Len(result) - 1) : LexLess(result[k], result[k + 1])

C6_Witness ==
    /\ Returned
    /\ \E k \in 1..(Len(result) - 1) :
          /\ result[k][1] < result[k + 1][1]
          /\ result[k][2] > result[k + 1][2]

\* the threshold the caller of get_edges asks for: the one passed, 1.0 if none
AskedT == IF Len(extraArgs) = 0 THEN Res ELSE extraArgs[1]

\* C7 as stated: the builder accepts a threshold T (default 1.0) and the
\* returned EdgeList holds (i, j) iff the distance is <= T.
C7_ThresholdIsInput ==
    /\ err # "TypeError"
    /\ Returned =>
          \A p \in UpperPairs :
              (p \in EdgeList) <=> WithinDist(At(graph, p[1]), At(graph, p[2]), AskedT)

\* C7 amended: get_edges takes the point set only and its threshold is fixed
\* at 1.0: a call that passes a T ends in a fault and returns no EdgeList,
\* and every returned EdgeList is that of the threshold 1.0.
C7_ThresholdFixed ==
    /\ (Len(extraArgs) > 0 /\ pc # "call") => (pc = "fault" /\ err = "TypeError")
    /\ Returned =>
          /\ Len(extraArgs) = 0
          /\ \A p \in UpperPairs :
                (p \in EdgeList) <=> WithinDist(At(graph, p[1]), At(graph, p[2]), Res)

C7_Witness == pc = "fault" /\ extraArgs = <<2 * Res>> /\ N >= 2

\* C8: for [(0,0), (1,0), (2,0)] the result is exactly [(0,1), (1,2)].
C8_ExampleLine ==
    (Returned /\ graph = ExampleLine) => result = << <<0, 1>>, <<1, 2>> >>

C8_Witness == Returned /\ graph = ExampleLine /\ Len(result) = 2

\* C9: for [(0,0), (0,0.5), (10,10)] the result is exactly [(0,1)].
C9_ExampleFar ==
    (Returned /\ graph = ExampleFar) => result = << <<0, 1>> >>

C9_Witness == Returned /\ graph = ExampleFar /\ Len(result) = 1

\* All points of g lie within a circle of diameter < 1.0 whose centre has
\* coordinates that are multiples of 0.25: twice the distance to the centre c
\* (in half steps) is below 2 * Res half steps.
Centres == {<<Half * x, Half * y>> : x \in 0..(2 * MaxCoord), y \in 0..(2 * MaxCoord)}
InSmallCircle(g) ==
    /\ g \in PointSets
    /\ \E c \in Centres :
          \A n \in 1..Len(g) :
              (2 * g[n][1] - c[1]) * (2 * g[n][1] - c[1])
                + (2 * g[n][2] - c[2]) * (2 * g[n][2] - c[2]) < Res * Res

\* C10: when all N points lie within a circle of diameter < 1.0, the returned
\* EdgeList is the complete graph: all N(N-1)/2 pairs (i, j), i < j.
C10_SmallCircleComplete ==
    (Returned /\ InSmallCircle(graph)) =>
        /\ EdgeList = UpperPairs
        /\ Len(result) = (N * (N - 1)) \div 2

C10_Witness ==
    /\ Returned
    /\ graph = Square
    /\ InSmallCircle(graph)
    /\ Len(result) = 6

\* C11: a run of get_edges on the point set of the first completed run
\* returns the EdgeList that the first run returned (same pairs, same
\* order), whatever ran in between and whatever the earlier calls left in
\* the names of the function.
C11_Deterministic ==
    (Returned /\ first.has /\ graph = first.graph) => result = first.result

C11_Witness ==
    /\ Returned
    /\ sawOther
    /\ graph = first.graph
    /\ graph \notin Others
    /\ Len(graph) = Len(ExampleLine)
    /\ result # <<>>

InGetEdges == pc \in {"call", "outer", "inner", "return"}
InBuild == pc \in {"build", "built"}

\* C12: no step changes the caller's point set; the steps of get_edges leave
\* the caller's G and loop position alone and set the result only on return;
\* the steps that build G leave the returned EdgeList as it is.
C12_NoSideEffects ==
    [][ /\ graph' = graph
        /\ InGetEdges => (G' = G /\ pos' = pos)
        /\ (InGetEdges /\ pc' # "done") => result' = result
        /\ InBuild => result' = result ]_vars

C12_Witness == pc = "built" /\ Len(result) >= 2 /\ N >= 3

HasMalformed == graph \in MalformedSets
WellFormedAt(n) == At(graph, n) \notin BadPoints

\* C13 as stated: a point set that holds a malformed point never gets an
\* EdgeList back, whatever its size.
C13_MalformedAlwaysFaults ==
    (HasMalformed /\ Len(extraArgs) = 0) => pc \notin {"return", "done", "build", "built"}

\* the first malformed point, as a Python index
FirstBad == CHOOSE n \in 0..(N - 1) :
                /\ ~WellFormedAt(n)
                /\ \A m \in 0..(n - 1) : WellFormedAt(m)

\* C13 amended: a point set of at least two points that holds a malformed
\* point never gets an EdgeList back: the run ends in a ValueError or an
\* operand TypeError in the first pass of the outer loop, as soon as the
\* scan uses a malformed point, after the distances of the well-formed
\* points before it and of no other; a malformed point that is the only
\* point is never looked at and raises nothing.
C13_MalformedFaultsFromTwo ==
    (HasMalformed /\ Len(extraArgs) = 0) =>
        /\ N >= 2 => pc \in {"call", "outer", "inner", "fault"}
        /\ (N >= 2 /\ pc = "fault") =>
              /\ err \in {"ValueError", "OperandTypeError"}
              /\ result = <<>>
              /\ i = 0
              /\ Len(evald) = (IF WellFormedAt(0) THEN FirstBad - 1 ELSE 0)
              /\ \A n \in 1..Len(evald) :
                    WellFormedAt(evald[n][1]) /\ WellFormedAt(evald[n][2])
        /\ N = 1 => pc # "fault"

C13_Witness ==
    /\ HasMalformed
    /\ pc = "fault"
    /\ err = "ValueError"
    /\ N >= 3
    /\ Len(evald) >= 1

\* how often the pair p was evaluated
TimesEvald(p) == Cardinality({n \in 1..Len(evald) : evald[n] = p})

EachPairOnce ==
    /\ \A p \in UpperPairs : TimesEvald(p) = 1
    /\ Len(evald) = (N * (N - 1)) \div 2

\* what is left of a call of get_edges, as a number that every step of the
\* call lowers: the passes of the outer loop still to make, each worth more
\* than a whole inner loop, and the rest of the current inner loop
Rank ==
    LET W == Nv + 2
    IN  CASE pc = "call"   -> 3 + N * (N + 2)
          [] pc = "outer"  -> 2 + (Nv - i) * W
          [] pc = "inner"  -> 3 + (Nv - i - 1) * W + (Nv - j)
          [] pc = "return" -> 1
          [] OTHER         -> 0

\* C14: a call on a finite point set terminates: every step of the call
\* lowers Rank, which never falls below 0, so no call runs for ever; and when
\* a call on well-formed points has returned, it has computed the distance of
\* every pair i < j exactly once and no other distance.
C14_TerminatesAllPairsOnce ==
    /\ []((Returned /\ graph \in PointSets) => EachPairOnce)
    /\ [][InGetEdges => (Rank' < Rank /\ Rank' >= 0)]_vars

C14_Witness == Returned /\ N >= 3 /\ EachPairOnce /\ Len(evald) >= 3

\* the recorded output of dnx.maximum_independent_set(G, sampler)
Recorded == {2, 3, 4}

\* no two vertices of S are joined by an edge of g
Independent(S, g) == \A u, v \in S : {u, v} \notin g.edges

IndependentSets(g) == {S \in SUBSET g.nodes : Independent(S, g)}

MaximumIndependentSets(g) ==
    {S \in IndependentSets(g) :
        \A R \in IndependentSets(g) : Cardinality(R) <= Cardinality(S)}

\* C15: for the six-point instance, the recorded [2, 3, 4] is an independent
\* set of the built G, and no independent set of G has more vertices.
C15_RecordedIsMaximum ==
    (pc = "built" /\ graph = SixPoints) =>
        /\ Recorded \subseteq G.nodes
        /\ Independent(Recorded, G)
        /\ Cardinality(Recorded) = 3
        /\ \A S \in IndependentSets(G) : Cardinality(S) <= 3

C15_Witness ==
    /\ pc = "built"
    /\ graph = SixPoints
    /\ Cardinality(G.edges) = 5
    /\ {1, 2} \in G.edges

\* the nodes the notebook calls equivalent
Equivalent == {0, 3, 5}

\* C16: for the six-point instance, the maximum independent sets of the
\* built G are exactly {2, 4, v} for v = 0, 3, 5.
C16_ThreeMaximumSets ==
    (pc = "built" /\ graph = SixPoints) =>
        MaximumIndependentSets(G) = {{2, 4, v} : v \in Equivalent}

C16_Witness ==
    /\ pc = "built"
    /\ graph = SixPoints
    /\ {{0, 3}, {0, 5}, {3, 5}} \subseteq G.edges
    /\ Cardinality(MaximumIndependentSets(G)) = 3

Endpoints(es) == {es[n][1] : n \in 1..Len(es)} \cup {es[n][2] : n \in 1..Len(es)}

\* point v has another point within distance 1.0
HasNeighbour(v) ==
    \E u \in (0..(N - 1)) \ {v} : WithinDist(At(graph, u), At(graph, v), Res)

\* C17: once the caller's loop is over, the nodes of G are exactly the
\* endpoints of the edges of the EdgeList: a point without another point
\* within distance 1.0 is no node of G, and without edges G has no nodes.
C17_VerticesAreEndpoints ==
    pc = "built" =>
        /\ G.nodes = Endpoints(result)
        /\ \A v \in 0..(N - 1) : v \in G.nodes <=> HasNeighbour(v)
        /\ result = <<>> => G.nodes = {}

C17_Witness ==
    /\ pc = "built"
    /\ result # <<>>
    /\ \E v \in 0..(N - 1) : v \notin G.nodes

====
